---- MODULE Spec2Model ----
(***************************************************************************)
(* Model of src/main.py: the /upload endpoint and generate_output_file,    *)
(* which merges the packaged "DCF Model.xlsx" template with the uploaded   *)
(* consensus workbook and the optional profile workbook.                   *)
(*                                                                         *)
(* Spec     : one /upload request, followed statement by statement, with   *)
(*            copy_sheet unrolled to one step per merged range and cell.   *)
(* SpecConc : two /upload requests served by separate worker processes     *)
(*            that share the working directory, at file granularity.       *)
(***************************************************************************)
EXTENDS Integers, Sequences, FiniteSets, TLC

\* ---------------------------------------------------------------- bounds
MaxRow == 2
MaxCol == 2

Pos == (1..MaxRow) \X (1..MaxCol)

\* ------------------------------------------------------------ sheet names
DCF == "DCF Model"
CONS == "Consensus"
PC == "Public Company"
NOTES == "Notes"

\* ------------------------------------------------------- python cell values
\* cell.value is a python object: its type is part of the value.  A formula
\* is a str that begins with "="; FormulaTexts lists the ones used here.
NoneValue == [type |-> "NoneType", v |-> "None"]
PyStr(s) == [type |-> "str", v |-> s]
PyInt(s) == [type |-> "int", v |-> s]
PyDate(s) == [type |-> "datetime", v |-> s]
PyBool(s) == [type |-> "bool", v |-> s]

NoFormula == ""
FormulaTexts == {"=A1+1", "=SUM(B:B)", "=Consensus!A1"}

\* A cell as stored in an .xlsx file: the formula text (if any) and the
\* literal, which for a formula cell is the cached result of its last
\* evaluation.
Literal(val) == [f |-> NoFormula, v |-> val]
FormulaCell(text, cached) == [f |-> text, v |-> cached]

\* ------------------------------------------------------------ merged ranges
\* A range is <<min_row, min_col, max_row, max_col>>.
RangeCells(R) == {p \in Pos : R[1] <= p[1] /\ p[1] <= R[3] /\ R[2] <= p[2] /\ p[2] <= R[4]}
Anchor(R) == <<R[1], R[2]>>
Placeholders(ranges) == UNION {RangeCells(R) \ {Anchor(R)} : R \in ranges}

\* --------------------------------------------------------- uploaded sheets
\* File-level worksheets the uploads are drawn from.  tag distinguishes the
\* content of one sheet from another.
PlainSheet(tag) ==
    [cells |-> [p \in Pos |->
                  IF p[1] = 1 THEN Literal(PyStr(tag))
                  ELSE IF p[2] = 1 THEN FormulaCell("=A1+1", PyInt("2"))
                  ELSE IF p[2] = 2 THEN Literal(PyDate("2024-01-31"))
                  ELSE Literal(PyInt("7"))],
     merges |-> {},
     freeze_panes |-> "A2"]

\* every row is one merged range: only column 1 (the anchor) is stored
RowMergedSheet(tag) ==
    [cells |-> [p \in {q \in Pos : q[2] = 1} |->
                  IF p[1] = 1 THEN Literal(PyStr(tag))
                  ELSE FormulaCell("=SUM(B:B)", PyInt("10"))],
     merges |-> {<<r, 1, r, MaxCol>> : r \in 1..MaxRow},
     freeze_panes |-> "None"]

\* column 1 is one merged range, the other columns hold formulas and booleans
ColMergedSheet(tag) ==
    [cells |-> [p \in {q \in Pos : q[2] > 1 \/ q[1] = 1} |->
                  IF p[2] = 1 THEN FormulaCell("=Consensus!A1", PyStr(tag))
                  ELSE IF p[1] = 1 THEN Literal(PyBool("True"))
                  ELSE Literal(PyStr(tag))],
     merges |-> {<<1, 1, MaxRow, 1>>},
     freeze_panes |-> "B1"]

\* a sheet whose only stored cell is the bottom-right one
SparseSheet(tag) ==
    [cells |-> [p \in {<<MaxRow, MaxCol>>} |-> Literal(PyInt(tag))],
     merges |-> {},
     freeze_panes |-> "None"]

Named(title, sheet) ==
    [title |-> title, cells |-> sheet.cells, merges |-> sheet.merges,
     freeze_panes |-> sheet.freeze_panes]

ConsensusSheets == {PlainSheet("c"), RowMergedSheet("c"), ColMergedSheet("c")}
ProfileSheets == {PlainSheet("p"), RowMergedSheet("p"), SparseSheet("5")}

\* Optional sheet: the empty sequence or the one-sheet sequence.
Opt(title, sheets) == {<<>>} \cup {<<Named(title, s)>> : s \in sheets}

\* The consensus upload: any of Consensus, Public Company and an unrelated
\* sheet, or bytes that are not a workbook at all (<<>>).
ConsensusUploads ==
    {a \o b \o c : a \in Opt(CONS, ConsensusSheets),
                   b \in Opt(PC, ConsensusSheets),
                   c \in Opt(NOTES, {SparseSheet("1")})}

ProfileUploads ==
    {a \o b : a \in Opt(NOTES, {SparseSheet("1")}),
              b \in Opt(PC, ProfileSheets)}

\* "DCF Model.xlsx": the DCF Model sheet, possibly followed by sheets the
\* template predefines under the names the merge writes to.
TemplateSheet(title) == Named(title, PlainSheet("t"))
Templates ==
    {<<TemplateSheet(DCF)>> \o rest :
        rest \in {<<>>, <<TemplateSheet(CONS)>>, <<TemplateSheet(PC)>>,
                  <<TemplateSheet(CONS), TemplateSheet(PC)>>,
                  <<TemplateSheet(PC), TemplateSheet(CONS)>>,
                  <<TemplateSheet(NOTES)>>}}

\* ------------------------------------------------------- openpyxl workbooks
\* load_workbook(path, data_only=False): a formula cell yields its formula
\* text, any other cell its literal.
LoadCellValueDataOnly(fc) == fc.v
LoadCellValue(fc) == IF fc.f # NoFormula THEN PyStr(fc.f) ELSE fc.v

MergedCell == [kind |-> "MergedCell", value |-> NoneValue]
Cell(val) == [kind |-> "Cell", value |-> val]

\* The non-anchor cells of every merged range are bound as MergedCell.
LoadSheet(fsheet) ==
    LET holes == Placeholders(fsheet.merges)
        dom == DOMAIN fsheet.cells \cup holes \cup {Anchor(R) : R \in fsheet.merges}
    IN [title |-> fsheet.title,
        cells |-> [p \in dom |->
                     IF p \in holes THEN MergedCell
                     ELSE IF p \in DOMAIN fsheet.cells
                          THEN Cell(LoadCellValue(fsheet.cells[p]))
                          ELSE Cell(NoneValue)],
        merged |-> fsheet.merges,
        freeze_panes |-> fsheet.freeze_panes,
        dims |-> "custom", page_setup |-> "custom",
        page_margins |-> "custom", print_options |-> "custom"]

LoadWorkbook(file) == [i \in 1..Len(file) |-> LoadSheet(file[i])]

\* Workbook.save: a str beginning with "=" is written as a formula, a
\* MergedCell is not written.
SaveCell(c) ==
    IF c.value.type = "str" /\ c.value.v \in FormulaTexts
    THEN FormulaCell(c.value.v, NoneValue)
    ELSE Literal(c.value)

SaveSheet(ws) ==
    [title |-> ws.title,
     cells |-> [p \in {q \in DOMAIN ws.cells : ws.cells[q].kind = "Cell"} |->
                  SaveCell(ws.cells[p])],
     merges |-> ws.merged,
     freeze_panes |-> ws.freeze_panes]

SaveWorkbook(wb) == [i \in 1..Len(wb) |-> SaveSheet(wb[i])]

sheetnames(wb) == {wb[i].title : i \in 1..Len(wb)}
SheetNamed(wb, title) == wb[CHOOSE i \in 1..Len(wb) : wb[i].title = title]
Titles(wb) == [i \in 1..Len(wb) |-> wb[i].title]

\* copy_sheet, lines 127-129: drop the sheet that already has the name
KeepExisting(wb, title) == wb
RemoveExisting(wb, title) ==
    LET Keep(ws) == ws.title # title IN SelectSeq(wb, Keep)

\* Workbook.create_sheet(title): appended last; openpyxl itself renames a
\* title that is already taken by appending a number.
UniqueTitle(wb, title) == IF title \in sheetnames(wb) THEN title \o "1" ELSE title
NewSheet(title) ==
    [title |-> title, cells |-> <<>>, merged |-> {}, freeze_panes |-> "None",
     dims |-> "default", page_setup |-> "default",
     page_margins |-> "default", print_options |-> "default"]
CreateSheet(wb, title) == Append(wb, NewSheet(UniqueTitle(wb, title)))

\* Worksheet.merge_cells(range): the non-anchor cells become MergedCell
MergeCells(ws, R) ==
    LET holes == RangeCells(R) \ {Anchor(R)}
    IN [ws EXCEPT !.merged = @ \cup {R},
                  !.cells = [p \in DOMAIN ws.cells \cup holes |->
                               IF p \in holes THEN MergedCell ELSE ws.cells[p]]]

\* target_sheet.cell(row, column).value = value
SetCell(ws, p, val) ==
    [ws EXCEPT !.cells = [q \in DOMAIN ws.cells \cup {p} |->
                            IF q = p THEN Cell(val) ELSE ws.cells[q]]]

\* source_sheet.iter_rows(): the bounding box of the stored cells, row-major
IterRows(ws) ==
    LET rows == {p[1] : p \in DOMAIN ws.cells}
        cols == {p[2] : p \in DOMAIN ws.cells}
        minr == CHOOSE r \in rows : \A x \in rows : r <= x
        maxr == CHOOSE r \in rows : \A x \in rows : r >= x
        minc == CHOOSE c \in cols : \A x \in cols : c <= x
        maxc == CHOOSE c \in cols : \A x \in cols : c >= x
        nc == maxc - minc + 1
    IN [i \in 1..((maxr - minr + 1) * nc) |->
          <<minr + ((i - 1) \div nc), minc + ((i - 1) % nc)>>]

CellAt(ws, p) == IF p \in DOMAIN ws.cells THEN ws.cells[p] ELSE Cell(NoneValue)

\* line 163: isinstance(cell, MergedCell)
NeverMergedCell(cell) == FALSE
IsMergedCell(cell) == cell.kind = "MergedCell"

\* ------------------------------------------------------------------ state
CONSENSUS_PATH == "temp_consensus.xlsx"
PROFILE_PATH == "temp_profile.xlsx"
TEMP_NAME == "tmp_named_temporary_file.xlsx"
NoPath == "None"
Paths == {CONSENSUS_PATH, PROFILE_PATH, TEMP_NAME}

Absent == [exists |-> FALSE, data |-> <<>>]
File(data) == [exists |-> TRUE, data |-> data]

VARIABLES
    template,        \* "DCF Model.xlsx" in the working directory
    consensus,       \* the uploaded consensus workbook (consensus.file)
    profile,         \* [supplied, data]: the optional profile upload
    fs,              \* the files of the working directory and the temp dir
    consensus_path, profile_path, output_path,
    output_wb, consensus_wb, profile_wb, to_copy,
    cs,              \* the frame of the running copy_sheet call
    writes,          \* positions copy_sheet has assigned a value to
    pc, status, exc, body,
    reqs, shared     \* SpecConc: the two requests and the files they share

vars == <<template, consensus, profile, fs, consensus_path, profile_path,
          output_path, output_wb, consensus_wb, profile_wb, to_copy, cs,
          writes, pc, status, exc, body, reqs, shared>>

inputs == <<template, consensus, profile>>
concvars == <<reqs, shared>>

IdleFrame ==
    [active |-> FALSE, from |-> "", source_sheet |-> NewSheet(""),
     target_title |-> "", target |-> 0, merges_left |-> {},
     cells_left |-> <<>>, ret |-> ""]

Call(from, source_sheet, target_title, ret) ==
    [active |-> TRUE, from |-> from, source_sheet |-> source_sheet,
     target_title |-> target_title, target |-> 0,
     merges_left |-> source_sheet.merged, cells_left |-> <<>>, ret |-> ret]

Init ==
    /\ template \in Templates
    /\ consensus \in ConsensusUploads
    /\ profile \in {[supplied |-> FALSE, data |-> <<>>]}
                   \cup {[supplied |-> TRUE, data |-> d] : d \in ProfileUploads}
    /\ fs = [p \in Paths |-> Absent]
    /\ consensus_path = NoPath /\ profile_path = NoPath /\ output_path = NoPath
    /\ output_wb = <<>> /\ consensus_wb = <<>> /\ profile_wb = <<>>
    /\ to_copy = <<>>
    /\ cs = IdleFrame
    /\ writes = {}
    /\ pc = "stage_consensus"
    /\ status = 0 /\ exc = "" /\ body = <<>>
    /\ reqs = <<>> /\ shared = <<>>

\* ------------------------------------------------------ upload, lines 59-67
StageConsensus ==
    /\ pc = "stage_consensus"
    /\ consensus_path' = CONSENSUS_PATH
    /\ fs' = [fs EXCEPT ![CONSENSUS_PATH] = File(consensus)]
    /\ pc' = "stage_profile"
    /\ UNCHANGED <<inputs, profile_path, output_path, output_wb, consensus_wb,
                   profile_wb, to_copy, cs, writes, status, exc, body, concvars>>

\* open() or copyfileobj raises before the try block is entered: the
\* exception leaves upload without passing through except or finally.
StageConsensusFails ==
    /\ pc = "stage_consensus"
    /\ consensus_path' = CONSENSUS_PATH
    /\ \E created \in BOOLEAN :
         fs' = [fs EXCEPT ![CONSENSUS_PATH] = IF created THEN File(<<>>) ELSE Absent]
    /\ exc' = "OSError" /\ status' = 500 /\ pc' = "done"
    /\ UNCHANGED <<inputs, profile_path, output_path, output_wb, consensus_wb,
                   profile_wb, to_copy, cs, writes, body, concvars>>

StageProfile ==
    /\ pc = "stage_profile"
    /\ IF profile.supplied
       THEN /\ profile_path' = PROFILE_PATH
            /\ fs' = [fs EXCEPT ![PROFILE_PATH] = File(profile.data)]
       ELSE UNCHANGED <<profile_path, fs>>
    /\ pc' = "load_template"
    /\ UNCHANGED <<inputs, consensus_path, output_path, output_wb, consensus_wb,
                   profile_wb, to_copy, cs, writes, status, exc, body, concvars>>

StageProfileFails ==
    /\ pc = "stage_profile"
    /\ profile.supplied
    /\ profile_path' = PROFILE_PATH
    /\ \E created \in BOOLEAN :
         fs' = [fs EXCEPT ![PROFILE_PATH] = IF created THEN File(<<>>) ELSE Absent]
    /\ exc' = "OSError" /\ status' = 500 /\ pc' = "done"
    /\ UNCHANGED <<inputs, consensus_path, output_path, output_wb, consensus_wb,
                   profile_wb, to_copy, cs, writes, body, concvars>>

\* ----------------------------------------- generate_output_file, 116-118
LoadTemplate ==
    /\ pc = "load_template"
    /\ output_wb' = LoadWorkbook(template)
    /\ pc' = "load_consensus"
    /\ UNCHANGED <<inputs, fs, consensus_path, profile_path, output_path,
                   consensus_wb, profile_wb, to_copy, cs, writes, status, exc,
                   body, concvars>>

\* line 185; bytes that are not a workbook make load_workbook raise
LoadConsensus ==
    /\ pc = "load_consensus"
    /\ IF fs[consensus_path].data = <<>>
       THEN /\ exc' = "InvalidFileException" /\ pc' = "except"
            /\ UNCHANGED consensus_wb
       ELSE /\ consensus_wb' = LoadWorkbook(fs[consensus_path].data)
            /\ pc' = "select"
            /\ UNCHANGED exc
    /\ UNCHANGED <<inputs, fs, consensus_path, profile_path, output_path,
                   output_wb, profile_wb, to_copy, cs, writes, status, body,
                   concvars>>

\* lines 187-192
NoProfileAndConsensusHasPC(ppath, wb) == ppath = NoPath /\ PC \in sheetnames(wb)

SelectToCopy(ppath, wb) ==
    (IF CONS \in sheetnames(wb) THEN <<CONS>> ELSE <<>>)
    \o (IF NoProfileAndConsensusHasPC(ppath, wb) THEN <<PC>> ELSE <<>>)

SelectSheets ==
    /\ pc = "select"
    /\ to_copy' = SelectToCopy(profile_path, consensus_wb)
    /\ pc' = "copy_loop"
    /\ UNCHANGED <<inputs, fs, consensus_path, profile_path, output_path,
                   output_wb, consensus_wb, profile_wb, cs, writes, status,
                   exc, body, concvars>>

\* lines 194-195
CopyLoop ==
    /\ pc = "copy_loop"
    /\ IF to_copy = <<>>
       THEN /\ pc' = "check_profile"
            /\ UNCHANGED <<to_copy, cs>>
       ELSE /\ cs' = Call("consensus", SheetNamed(consensus_wb, Head(to_copy)),
                          Head(to_copy), "copy_loop")
            /\ to_copy' = Tail(to_copy)
            /\ pc' = "cs_remove"
    /\ UNCHANGED <<inputs, fs, consensus_path, profile_path, output_path,
                   output_wb, consensus_wb, profile_wb, writes, status, exc,
                   body, concvars>>

\* line 197
CheckProfile ==
    /\ pc = "check_profile"
    /\ pc' = IF profile_path # NoPath THEN "load_profile" ELSE "mktemp"
    /\ UNCHANGED <<inputs, fs, consensus_path, profile_path, output_path,
                   output_wb, consensus_wb, profile_wb, to_copy, cs, writes,
                   status, exc, body, concvars>>

\* line 200: the sheet of the profile workbook that is copied
ActiveSheet(wb) == wb[1]
ProfileSource(wb) == SheetNamed(wb, PC)

\* lines 198-200
LoadProfile ==
    /\ pc = "load_profile"
    /\ IF fs[profile_path].data = <<>>
       THEN /\ exc' = "InvalidFileException" /\ pc' = "except"
            /\ UNCHANGED <<profile_wb, cs>>
       ELSE LET wb == LoadWorkbook(fs[profile_path].data)
            IN /\ profile_wb' = wb
               /\ UNCHANGED exc
               /\ IF PC \in sheetnames(wb)
                  THEN /\ cs' = Call("profile", ProfileSource(wb), PC, "mktemp")
                       /\ pc' = "cs_remove"
                  ELSE /\ pc' = "mktemp"
                       /\ UNCHANGED cs
    /\ UNCHANGED <<inputs, fs, consensus_path, profile_path, output_path,
                   output_wb, consensus_wb, to_copy, writes, status, body,
                   concvars>>

\* ------------------------------------------------- copy_sheet, 124-182
Target == output_wb[cs.target]

CopyUnchanged ==
    UNCHANGED <<inputs, fs, consensus_path, profile_path, output_path,
                consensus_wb, profile_wb, to_copy, status, body, concvars>>

\* lines 127-129
CsRemove ==
    /\ pc = "cs_remove"
    /\ output_wb' = RemoveExisting(output_wb, cs.target_title)
    /\ pc' = "cs_create"
    /\ UNCHANGED <<cs, writes, exc>>
    /\ CopyUnchanged

\* line 131
CsCreate ==
    /\ pc = "cs_create"
    /\ output_wb' = CreateSheet(output_wb, cs.target_title)
    /\ cs' = [cs EXCEPT !.target = Len(output_wb) + 1]
    /\ writes' = {}
    /\ pc' = "cs_dims"
    /\ UNCHANGED exc
    /\ CopyUnchanged

\* lines 133-148
CsDims ==
    /\ pc = "cs_dims"
    /\ output_wb' = [output_wb EXCEPT ![cs.target].dims = cs.source_sheet.dims]
    /\ pc' = "cs_freeze"
    /\ UNCHANGED <<cs, writes, exc>>
    /\ CopyUnchanged

\* line 150
CsFreeze ==
    /\ pc = "cs_freeze"
    /\ output_wb' = [output_wb EXCEPT
                       ![cs.target].freeze_panes = cs.source_sheet.freeze_panes]
    /\ pc' = "cs_merge"
    /\ UNCHANGED <<cs, writes, exc>>
    /\ CopyUnchanged

\* lines 152-153, one merged range per step; then line 155 starts the rows
CsMerge ==
    /\ pc = "cs_merge"
    /\ IF cs.merges_left = {}
       THEN /\ cs' = [cs EXCEPT !.cells_left = IterRows(cs.source_sheet)]
            /\ pc' = "cs_cells"
            /\ UNCHANGED output_wb
       ELSE \E R \in cs.merges_left :
              /\ output_wb' = [output_wb EXCEPT ![cs.target] = MergeCells(@, R)]
              /\ cs' = [cs EXCEPT !.merges_left = @ \ {R}]
              /\ UNCHANGED pc
    /\ UNCHANGED <<writes, exc>>
    /\ CopyUnchanged

\* lines 156-177, one cell per step.  Assigning to a MergedCell of the
\* target raises AttributeError.
CsCell ==
    /\ pc = "cs_cells"
    /\ IF cs.cells_left = <<>>
       THEN /\ pc' = "cs_page_setup"
            /\ UNCHANGED <<output_wb, cs, writes, exc>>
       ELSE LET p == Head(cs.cells_left)
                cell == CellAt(cs.source_sheet, p)
            IN IF IsMergedCell(cell)
               THEN /\ cs' = [cs EXCEPT !.cells_left = Tail(@)]
                    /\ UNCHANGED <<output_wb, writes, exc, pc>>
               ELSE /\ writes' = writes \cup {p}
                    /\ IF CellAt(Target, p).kind = "MergedCell"
                       THEN /\ exc' = "AttributeError" /\ pc' = "except"
                            /\ UNCHANGED <<output_wb, cs>>
                       ELSE /\ output_wb' = [output_wb EXCEPT
                                               ![cs.target] = SetCell(@, p, cell.value)]
                            /\ cs' = [cs EXCEPT !.cells_left = Tail(@)]
                            /\ UNCHANGED <<exc, pc>>
    /\ CopyUnchanged

\* line 180
CsPageSetup ==
    /\ pc = "cs_page_setup"
    /\ output_wb' = [output_wb EXCEPT ![cs.target].page_setup = cs.source_sheet.page_setup]
    /\ pc' = "cs_page_margins"
    /\ UNCHANGED <<cs, writes, exc>>
    /\ CopyUnchanged

\* line 181
CsPageMargins ==
    /\ pc = "cs_page_margins"
    /\ output_wb' = [output_wb EXCEPT ![cs.target].page_margins = cs.source_sheet.page_margins]
    /\ pc' = "cs_print_options"
    /\ UNCHANGED <<cs, writes, exc>>
    /\ CopyUnchanged

\* line 182, then copy_sheet returns to its caller
CsPrintOptions ==
    /\ pc = "cs_print_options"
    /\ output_wb' = [output_wb EXCEPT ![cs.target].print_options = cs.source_sheet.print_options]
    /\ pc' = cs.ret
    /\ cs' = [cs EXCEPT !.active = FALSE]
    /\ UNCHANGED <<writes, exc>>
    /\ CopyUnchanged

\* The statements that clone an optional attribute (150, 180, 181, 182) are
\* not wrapped in try/except inside copy_sheet: when one of them raises, the
\* exception leaves copy_sheet and generate_output_file.
OptionalAttributeSteps == {"cs_freeze", "cs_page_setup", "cs_page_margins", "cs_print_options"}

CsAttributeRaises ==
    /\ pc \in OptionalAttributeSteps
    /\ exc' = "AttributeCloneError:" \o pc
    /\ pc' = "except"
    /\ UNCHANGED <<output_wb, cs, writes>>
    /\ CopyUnchanged

\* ------------------------------------ generate_output_file, lines 202-204
MkTemp ==
    /\ pc = "mktemp"
    /\ fs' = [fs EXCEPT ![TEMP_NAME] = File(<<>>)]
    /\ pc' = "save"
    /\ UNCHANGED <<inputs, consensus_path, profile_path, output_path, output_wb,
                   consensus_wb, profile_wb, to_copy, cs, writes, status, exc,
                   body, concvars>>

Save ==
    /\ pc = "save"
    /\ fs' = [fs EXCEPT ![TEMP_NAME] = File(SaveWorkbook(output_wb))]
    /\ output_path' = TEMP_NAME
    /\ pc' = "respond"
    /\ UNCHANGED <<inputs, consensus_path, profile_path, output_wb,
                   consensus_wb, profile_wb, to_copy, cs, writes, status, exc,
                   body, concvars>>

SaveRaises ==
    /\ pc = "save"
    /\ exc' = "OSError" /\ pc' = "except"
    /\ UNCHANGED <<inputs, fs, consensus_path, profile_path, output_path,
                   output_wb, consensus_wb, profile_wb, to_copy, cs, writes,
                   status, body, concvars>>

\* ------------------------------------------------------ upload, lines 75-87
Respond ==
    /\ pc = "respond"
    /\ status' = 200
    /\ body' = fs[output_path].data
    /\ pc' = "finally"
    /\ UNCHANGED <<inputs, fs, consensus_path, profile_path, output_path,
                   output_wb, consensus_wb, profile_wb, to_copy, cs, writes,
                   exc, concvars>>

\* lines 80-81: every exception becomes HTTPException(500)
Except ==
    /\ pc = "except"
    /\ status' = 500
    /\ pc' = "finally"
    /\ UNCHANGED <<inputs, fs, consensus_path, profile_path, output_path,
                   output_wb, consensus_wb, profile_wb, to_copy, cs, writes,
                   exc, body, concvars>>

\* lines 82-87
Finally ==
    /\ pc = "finally"
    /\ fs' = [p \in Paths |->
                IF p = consensus_path \/ (profile_path # NoPath /\ p = profile_path)
                THEN Absent ELSE fs[p]]
    /\ pc' = "done"
    /\ UNCHANGED <<inputs, consensus_path, profile_path, output_path, output_wb,
                   consensus_wb, profile_wb, to_copy, cs, writes, status, exc,
                   body, concvars>>

Next ==
    \/ StageConsensus \/ StageConsensusFails \/ StageProfile \/ StageProfileFails
    \/ LoadTemplate \/ LoadConsensus \/ SelectSheets \/ CopyLoop
    \/ CheckProfile \/ LoadProfile
    \/ CsRemove \/ CsCreate \/ CsDims \/ CsFreeze \/ CsMerge \/ CsCell
    \/ CsPageSetup \/ CsPageMargins \/ CsPrintOptions \/ CsAttributeRaises
    \/ MkTemp \/ Save \/ SaveRaises \/ Respond \/ Except \/ Finally

Spec == Init /\ [][Next]_vars

\* ================================================================ claims
\* The raw content of a stored cell: the formula text of a formula cell, the
\* literal otherwise; nothing (None) where no cell is stored.
RawContent(fsheet, p) ==
    IF p \notin DOMAIN fsheet.cells THEN NoneValue
    ELSE IF fsheet.cells[p].f # NoFormula THEN PyStr(fsheet.cells[p].f)
    ELSE fsheet.cells[p].v

SameContent(a, b) ==
    /\ a.merges = b.merges
    /\ \A p \in Pos : RawContent(a, p) = RawContent(b, p)

NoDuplicateNames(wb) ==
    \A i, j \in 1..Len(wb) : wb[i].title = wb[j].title => i = j

Succeeded == pc = "done" /\ status = 200

\* the uploaded file-level sheet the running copy_sheet call copies
SourceFileSheet ==
    IF cs.from = "consensus" THEN SheetNamed(consensus, cs.target_title)
    ELSE SheetNamed(profile.data, PC)

CellsDone == {"cs_page_setup", "cs_page_margins", "cs_print_options"}

\* C1: a request whose consensus workbook has no "Consensus" sheet (and that
\* meets no other fault) ends with status 400 and leaves no output file.
C1_MissingConsensusIsClientError ==
    (pc = "done" /\ consensus # <<>> /\ CONS \notin sheetnames(consensus)
       /\ exc = "")
    => (status = 400 /\ ~fs[TEMP_NAME].exists)

\* C2: a successful run whose profile or consensus workbook has a "Public
\* Company" sheet outputs one; with no profile sheet of that name the
\* output's sheet has the content of the consensus workbook's sheet.
C2_PublicCompanyWheneverASourceHasIt ==
    (Succeeded /\ (PC \in sheetnames(profile.data) \/ PC \in sheetnames(consensus)))
    => /\ PC \in sheetnames(body)
       /\ (PC \notin sheetnames(profile.data)
             => SameContent(SheetNamed(body, PC), SheetNamed(consensus, PC)))

PublicCompanySelected ==
    \/ profile.supplied /\ PC \in sheetnames(profile.data)
    \/ ~profile.supplied /\ PC \in sheetnames(consensus)

C4_OutputSheetSequence ==
    Succeeded =>
      Titles(body) = <<DCF, CONS>> \o (IF PublicCompanySelected THEN <<PC>> ELSE <<>>)

\* C5: at every point of the run no two sheets of the workbook under
\* construction share a name, and the sheet copy_sheet fills is the only
\* sheet that carries the target name (the earlier one was removed).
C5_NamesStayUnique ==
    /\ NoDuplicateNames(output_wb)
    /\ NoDuplicateNames(body)
    /\ (cs.active /\ cs.target > 0) =>
          /\ Target.title = cs.target_title
          /\ \A i \in 1..Len(output_wb) :
               output_wb[i].title = cs.target_title => i = cs.target

C5_Witness ==
    /\ cs.active /\ cs.target > 0
    /\ cs.target_title \in sheetnames(template)
    /\ Target.title = cs.target_title

\* C6: once copy_sheet has passed a source cell that is not a merged-range
\* placeholder, the target cell at the same position holds the raw content of
\* the uploaded cell: the literal with its type, or the formula text.
C6_RawContentCopied ==
    (cs.active /\ pc \in CellsDone \cup {"cs_cells"}) =>
      \A i \in DOMAIN IterRows(cs.source_sheet) :
        LET p == IterRows(cs.source_sheet)[i]
        IN (p \notin Placeholders(SourceFileSheet.merges)
              /\ (pc = "cs_cells" => i <= Len(IterRows(cs.source_sheet)) - Len(cs.cells_left)))
           => /\ CellAt(Target, p).kind = "Cell"
              /\ CellAt(Target, p).value = RawContent(SourceFileSheet, p)

C6_Witness ==
    /\ cs.active /\ pc \in CellsDone
    /\ \E p \in writes :
         /\ SourceFileSheet.cells[p].f \in FormulaTexts
         /\ SourceFileSheet.cells[p].v # NoneValue
         /\ CellAt(Target, p).value = PyStr(SourceFileSheet.cells[p].f)
    /\ \E p \in writes : CellAt(Target, p).value.type = "datetime"

\* C7: every merged range is declared in the target before the first cell
\* value is written, no write is attempted on a non-anchor cell of a range,
\* and after the cells are copied the target has the source's ranges with
\* MergedCell placeholders at every non-anchor position.
C7_MergeIntegrity ==
    (cs.active /\ cs.target > 0) =>
      /\ writes # {} => Target.merged = SourceFileSheet.merges
      /\ writes \cap Placeholders(SourceFileSheet.merges) = {}
      /\ exc # "AttributeError"
      /\ pc \in CellsDone =>
           /\ Target.merged = SourceFileSheet.merges
           /\ \A p \in Placeholders(SourceFileSheet.merges) :
                CellAt(Target, p) = MergedCell

C7_Witness ==
    /\ cs.active /\ pc \in CellsDone
    /\ Cardinality(SourceFileSheet.merges) >= 2
    /\ writes # {}
    /\ Target.merged = SourceFileSheet.merges

\* C9: when the request has ended, on any path, none of the files it
\* created (staged consensus, staged profile, generated output) remains.
C9_NoArtifactRemains ==
    pc = "done" => \A p \in Paths : ~fs[p].exists

\* C10: a failure while cloning an optional attribute does not fail the
\* request: the copy continues and the request ends with status 200.
CloneErrors == {"AttributeCloneError:" \o step : step \in OptionalAttributeSteps}

C10_OptionalAttributesBestEffort ==
    (pc = "done" /\ exc \in CloneErrors) => status = 200

\* ======================================================= two requests
\* Two /upload requests handled by separate worker processes that share the
\* working directory.  A staged file is identified by the request whose
\* upload it holds (owner); the merge itself is in memory and is left out.
NumRequests == 2
Req == 1..NumRequests

TempNameOf(r) == "tmp_" \o ToString(r) \o ".xlsx"
SharedPaths == {CONSENSUS_PATH, PROFILE_PATH} \cup {TempNameOf(r) : r \in Req}

Missing == [exists |-> FALSE, owner |-> 0]
Holds(r) == [exists |-> TRUE, owner |-> r]

InitConc ==
    /\ template = <<>> /\ consensus = <<>>
    /\ profile = [supplied |-> FALSE, data |-> <<>>]
    /\ fs = [p \in Paths |-> Absent]
    /\ consensus_path = NoPath /\ profile_path = NoPath /\ output_path = NoPath
    /\ output_wb = <<>> /\ consensus_wb = <<>> /\ profile_wb = <<>>
    /\ to_copy = <<>> /\ cs = IdleFrame /\ writes = {}
    /\ pc = "workers" /\ status = 0 /\ exc = "" /\ body = <<>>
    /\ \E with_profile \in [Req -> BOOLEAN] :
         reqs = [r \in Req |->
                   [pc |-> "stage_consensus", has_profile |-> with_profile[r],
                    consensus_path |-> NoPath, profile_path |-> NoPath,
                    output_path |-> NoPath, consensus_wb |-> 0,
                    profile_wb |-> 0, status |-> 0, exc |-> ""]]
    /\ shared = [p \in SharedPaths |-> Missing]

single == <<template, consensus, profile, fs, consensus_path, profile_path,
            output_path, output_wb, consensus_wb, profile_wb, to_copy, cs,
            writes, pc, status, exc, body>>

\* lines 59-61
WStageConsensus(r) ==
    /\ reqs[r].pc = "stage_consensus"
    /\ shared' = [shared EXCEPT ![CONSENSUS_PATH] = Holds(r)]
    /\ reqs' = [reqs EXCEPT ![r].consensus_path = CONSENSUS_PATH,
                            ![r].pc = "stage_profile"]
    /\ UNCHANGED single

\* lines 63-67
WStageProfile(r) ==
    /\ reqs[r].pc = "stage_profile"
    /\ IF reqs[r].has_profile
       THEN /\ shared' = [shared EXCEPT ![PROFILE_PATH] = Holds(r)]
            /\ reqs' = [reqs EXCEPT ![r].profile_path = PROFILE_PATH,
                                    ![r].pc = "load_consensus"]
       ELSE /\ reqs' = [reqs EXCEPT ![r].pc = "load_consensus"]
            /\ UNCHANGED shared
    /\ UNCHANGED single

\* line 185: load_workbook(consensus_path)
WLoadConsensus(r) ==
    /\ reqs[r].pc = "load_consensus"
    /\ IF shared[reqs[r].consensus_path].exists
       THEN reqs' = [reqs EXCEPT ![r].consensus_wb = shared[reqs[r].consensus_path].owner,
                                 ![r].pc = "load_profile"]
       ELSE reqs' = [reqs EXCEPT ![r].exc = "FileNotFoundError", ![r].pc = "except"]
    /\ UNCHANGED <<shared, single>>

\* lines 197-198: load_workbook(profile_path)
WLoadProfile(r) ==
    /\ reqs[r].pc = "load_profile"
    /\ IF reqs[r].profile_path = NoPath
       THEN reqs' = [reqs EXCEPT ![r].pc = "save"]
       ELSE IF shared[reqs[r].profile_path].exists
       THEN reqs' = [reqs EXCEPT ![r].profile_wb = shared[reqs[r].profile_path].owner,
                                 ![r].pc = "save"]
       ELSE reqs' = [reqs EXCEPT ![r].exc = "FileNotFoundError", ![r].pc = "except"]
    /\ UNCHANGED <<shared, single>>

\* lines 202-204: NamedTemporaryFile gives every call a name of its own
WSave(r) ==
    /\ reqs[r].pc = "save"
    /\ shared' = [shared EXCEPT ![TempNameOf(r)] = Holds(r)]
    /\ reqs' = [reqs EXCEPT ![r].output_path = TempNameOf(r), ![r].pc = "respond"]
    /\ UNCHANGED single

\* lines 75-79
WRespond(r) ==
    /\ reqs[r].pc = "respond"
    /\ reqs' = [reqs EXCEPT ![r].status = 200, ![r].pc = "finally"]
    /\ UNCHANGED <<shared, single>>

\* lines 80-81
WExcept(r) ==
    /\ reqs[r].pc = "except"
    /\ reqs' = [reqs EXCEPT ![r].status = 500, ![r].pc = "finally"]
    /\ UNCHANGED <<shared, single>>

\* lines 82-87
WFinally(r) ==
    /\ reqs[r].pc = "finally"
    /\ shared' = [p \in SharedPaths |->
                    IF p = reqs[r].consensus_path
                       \/ (reqs[r].profile_path # NoPath /\ p = reqs[r].profile_path)
                    THEN Missing ELSE shared[p]]
    /\ reqs' = [reqs EXCEPT ![r].pc = "done"]
    /\ UNCHANGED single

NextConc ==
    \E r \in Req :
        \/ WStageConsensus(r) \/ WStageProfile(r) \/ WLoadConsensus(r)
        \/ WLoadProfile(r) \/ WSave(r) \/ WRespond(r) \/ WExcept(r)
        \/ WFinally(r)

SpecConc == InitConc /\ [][NextConc]_vars

\* C8: under every interleaving each request's staged consensus and profile
\* files stay its own from staging until it has read them: no other request
\* overwrites or deletes them, so each request loads exactly what it staged.
StagedConsensusInUse(r) == reqs[r].pc \in {"stage_profile", "load_consensus"}
StagedProfileInUse(r) ==
    reqs[r].profile_path # NoPath
    /\ reqs[r].pc \in {"load_consensus", "load_profile"}

C8_StagedFilesArePrivate ==
    \A r \in Req :
        /\ StagedConsensusInUse(r) => shared[CONSENSUS_PATH] = Holds(r)
        /\ StagedProfileInUse(r) => shared[PROFILE_PATH] = Holds(r)
        /\ reqs[r].consensus_wb \in {0, r}
        /\ reqs[r].profile_wb \in {0, r}
        /\ reqs[r].exc # "FileNotFoundError"

====
